---- MODULE Spec2Model ----
(***************************************************************************)
(* AfinaSqlDbDriver: a session-oriented access layer over a pooled Oracle  *)
(* driver.  Every async method is modelled as a sequence of steps, one per *)
(* await point: the code between two awaits runs atomically (single JS     *)
(* thread), the awaited collaborator call resolves or rejects in a later   *)
(* step, and the steps of concurrent calls interleave freely.              *)
(***************************************************************************)
EXTENDS Integers, Sequences, FiniteSets, TLC

\* ------------------------------------------------------------ bounds
NumProcs == 2          \* concurrent callers
MaxCalls == 3          \* driver calls made in one run, by all callers
PoolMax  == 2          \* connections a pool can lease at once
MaxExecutes == 2       \* execute calls of one session in the end-to-end run

Procs   == 1 .. NumProcs
PoolIds == 1 .. MaxCalls                  \* at most one createPool per call
Tokens  == {"t1", "t2"}                   \* session tokens (opaque strings)
NoTok   == "none"
NoPool  == 0                              \* this._pool is undefined
ConnIds == PoolIds \X (1 .. PoolMax)      \* a connection of a pool
NoConn  == <<0, 0>>

VARIABLES
    isOpened,   \* this._isOpened
    pool,       \* this._pool: the pool handle (NoPool until the first open)
    cfg,        \* this._dbUser / this._dbConnectionString are non-empty
    poolSt,     \* collaborator: every pool createPool returned, open or closed
    conn,       \* collaborator: every connection, free or leased, its statements
    sessions,   \* server side: the session tokens PKG_SESSION knows
    proc,       \* each caller: its call in progress (or its last one) and locals
    stable      \* history: an open() completed and no close() ran since

vars == <<isOpened, pool, cfg, poolSt, conn, sessions, proc, stable>>

\* a connection: free or leased; by = <<caller, number of its call>> that leased
\* it, op and tok that call and its token, log the statements run on it since,
\* last the latest statement a call passed to it with text, binds and options,
\* out the result it resolved that statement with (none: <<>>)
FreeConn == [st |-> "free", by |-> <<0, 0>>, op |-> "none", tok |-> NoTok, log |-> <<>>,
             last |-> [sql |-> "", binds |-> <<>>, opts |-> {}], out |-> <<>>]

\* a caller: pc the await its call is suspended at ("idle": no call in progress);
\* op, ext, tok the call and its arguments; lconn the local lConnection; target
\* the pool an awaited createPool / terminate / getConnection addresses; own the
\* connection getConnection returned to it; calls the calls it has made; and of
\* its last call: fail the first error raised, res the outcome, ret the
\* sessionID returned, nclose the close() calls made, bound whether
\* getConnection returned; legacy the aOldPackageSession argument of logon, args
\* the statement arguments of execute, stmt the statement the call hands to its
\* connection, nstmt how often it has done so, val the result returned
IdleProc == [pc |-> "idle", op |-> "none", ext |-> FALSE, tok |-> NoTok,
             lconn |-> NoConn, own |-> NoConn, target |-> NoPool,
             fail |-> "none", res |-> "none", ret |-> NoTok,
             calls |-> 0, nclose |-> 0, bound |-> FALSE,
             legacy |-> FALSE, args |-> [sql |-> "", binds |-> <<>>, opts |-> <<>>],
             stmt |-> [sql |-> "", binds |-> <<>>, opts |-> {}],
             nstmt |-> 0, val |-> <<>>]

\* the sessions the server holds when the driver is constructed
ServerSessions0 == {"t1"}

Init ==
    /\ isOpened = FALSE
    /\ pool = NoPool
    /\ cfg \in [user : BOOLEAN, connectString : BOOLEAN]
    /\ poolSt = [k \in PoolIds |-> "none"]
    /\ conn = [c \in ConnIds |-> FreeConn]
    /\ sessions = ServerSessions0
    /\ proc = [p \in Procs |-> IdleProc]
    /\ stable = FALSE

\* ------------------------------------------------------------ pure parts

\* (variant: open() without its guard)
OpenNeededAlways(opened) == TRUE

\* open(): `if (!this._isOpened)`
OpenNeeded(opened) == ~opened

\* (variants: a finally block that never closes, or that always does)
ClosesNever(ext) == FALSE
ClosesAlways(ext) == TRUE

\* execute(): `aConnection || await lConnection.close()`
ClosesAfter(ext) == ~ext

\* (variant: logon sending its info query before the logon statement)
AfterSchemaInfoFirst(op) == IF op = "logon" THEN "info_wait" ELSE "validate_wait"

\* (variant: getConnection without the VALIDATE_WEB statement)
AfterSchemaUnvalidated(op) == IF op = "logon" THEN "logon_wait" ELSE "stmt_wait"

\* getConnection() / logon(): the statement awaited after the schema switch
AfterSchema(op) == IF op = "logon" THEN "logon_wait" ELSE "validate_wait"

\* (variant: logoff without its catch)
LogoffStatusRethrow(outcome) == IF outcome = "ok" THEN "0" ELSE outcome

\* logoff(): `return 0` after execute resolved, `return -1` in the catch
LogoffStatus(outcome) == IF outcome = "ok" THEN "0" ELSE "-1"

\* ------------------------------------------------------------ bind parameters

\* an optional argument of a call: Omitted, or Given(v)
Omitted == <<>>
Given(v) == <<v>>

\* a default parameter `x = d`: d when the argument was omitted
Default(x, d) == IF Len(x) = 0 THEN d ELSE x[1]

\* `object[name] = value` (lodash `_.set` with a plain name)
SetField(object, name, value) ==
    [n \in DOMAIN object \cup {name} |-> IF n = name THEN value ELSE object[n]]

\* `new OraSqlParam()` / `new OraSqlParams()`: an object without own fields
NewObject == [n \in {} |-> ""]

\* OraSqlParam: the chained setters used by the driver and its callers
dirIn(param)      == SetField(param, "dir", "BIND_IN")
dirOut(param)     == SetField(param, "dir", "BIND_OUT")
typeNumber(param) == SetField(param, "type", "NUMBER")
typeString(param) == SetField(param, "type", "STRING")
val(param, value) == SetField(param, "val", value)

\* OraSqlParams.add(name) followed by the setters that yield `param`
add(params, name, param) == SetField(params, name, param)

\* the names a bind collection binds
BoundNames(params) == DOMAIN params

\* ------------------------------------------------------------ logon statement

\* the parameters the statement text names before the optional client tag
LogonNames ==
    <<"SCONNECT", "SUTILIZER", "SPASSWORD", "SIMPLEMENTATION", "SAPPLICATION", "SCOMPANY">>

\* (variant: the client tag spliced into the text in both modes)
LogonSqlTagged(legacy) == LogonNames \o <<"SBROWSER", "SLANGUAGE">>

\* sqlLogon: the placeholders of the statement text, in the order they occur
LogonSql(legacy) ==
    LogonNames \o (IF ~legacy THEN <<"SBROWSER">> ELSE <<>>) \o <<"SLANGUAGE">>

\* (variant: the user name bound where the token belongs)
LogonParamsMisbound(t, legacy) ==
    LET p1 == add(NewObject, "SCONNECT", val(NewObject, "aAfinaUser"))
        p2 == add(p1, "SUTILIZER", val(NewObject, "aAfinaUser"))
        p3 == add(p2, "SPASSWORD", val(NewObject, "aAfinaWebPassword"))
        p4 == add(p3, "SIMPLEMENTATION", val(NewObject, "this._implementation"))
        p5 == add(p4, "SAPPLICATION", val(NewObject, "aAfinaApplication"))
        p6 == add(p5, "SCOMPANY", val(NewObject, "aAfinaCompany"))
        p7 == add(p6, "SLANGUAGE", val(NewObject, "aAfinaInterfaceLanguage"))
    IN IF ~legacy THEN add(p7, "SBROWSER", val(NewObject, "this._browser")) ELSE p7

\* paramsLogin: the collection the add(...).val(...) calls build
LogonParams(t, legacy) ==
    LET p1 == add(NewObject, "SCONNECT", val(NewObject, t))
        p2 == add(p1, "SUTILIZER", val(NewObject, "aAfinaUser"))
        p3 == add(p2, "SPASSWORD", val(NewObject, "aAfinaWebPassword"))
        p4 == add(p3, "SIMPLEMENTATION", val(NewObject, "this._implementation"))
        p5 == add(p4, "SAPPLICATION", val(NewObject, "aAfinaApplication"))
        p6 == add(p5, "SCOMPANY", val(NewObject, "aAfinaCompany"))
        p7 == add(p6, "SLANGUAGE", val(NewObject, "aAfinaInterfaceLanguage"))
    IN IF ~legacy THEN add(p7, "SBROWSER", val(NewObject, "this._browser")) ELSE p7

\* a statement as a connection receives it
NoStmt == [sql |-> "", binds |-> <<>>, opts |-> {}]

\* the statement logon sends: `lConnection.execute(sqlLogon, paramsLogin, {})`
LogonStmt(t, legacy) ==
    [sql |-> LogonSql(legacy), binds |-> LogonParams(t, legacy), opts |-> {}]

\* ------------------------------------------------------------ execute arguments

\* the shapes of (aSql, aBindParams, aExecuteOptions) callers pass to execute
ArgShapes == {"plain", "positional", "named", "options"}

\* the collection the caller builds for PKG_SESSION_VARS.GET_NUM
GetNumParams ==
    LET p1 == add(NewObject, "SNAME", val(typeString(dirIn(NewObject)), "TEST_VAL"))
        p2 == add(p1, "NDEFVAL", val(typeNumber(dirIn(NewObject)), "0"))
    IN add(p2, "RES", typeNumber(dirOut(NewObject)))

ExecArgs(shape) ==
    CASE shape = "plain" ->
           [sql |-> "select * from v_companies", binds |-> Omitted, opts |-> Omitted]
      [] shape = "positional" ->
           [sql |-> "PKG_SESSION_VARS.PUT",
            binds |-> Given(<<"TEST_VAL", "16">>), opts |-> Omitted]
      [] shape = "named" ->
           [sql |-> "PKG_SESSION_VARS.GET_NUM",
            binds |-> Given(GetNumParams), opts |-> Omitted]
      [] shape = "options" ->
           [sql |-> "select * from v_companies",
            binds |-> Given(<<>>), opts |-> Given({"outFormat"})]

\* the arguments of a call that takes no statement
NoArgs == [sql |-> "", binds |-> Omitted, opts |-> Omitted]

\* logoff(): `this.execute(aSessionId, 'begin PKG_SESSION.LOGOFF_WEB ...', [aSessionId])`
LogoffArgs(t) == [sql |-> "PKG_SESSION.LOGOFF_WEB", binds |-> Given(<<t>>), opts |-> Omitted]

\* (variant: execute dropping the caller's options)
ExecuteStmtNoOptions(a) == [sql |-> a.sql, binds |-> Default(a.binds, <<>>), opts |-> {}]

\* execute(aSessionId, aSql, aBindParams = [], aExecuteOptions = {}, ...): what
\* `lConnection.execute(aSql, aBindParams, aExecuteOptions)` passes on
ExecuteStmt(a) ==
    [sql |-> a.sql, binds |-> Default(a.binds, <<>>), opts |-> Default(a.opts, {})]

\* the results a connection resolves a statement with
ResultKinds == {"rows", "outBinds", "rowsAffected"}
Result(kind) ==
    [rows         |-> IF kind = "rows" THEN <<"row1", "row2">> ELSE <<>>,
     outBinds     |-> IF kind = "outBinds" THEN <<"16">> ELSE <<>>,
     rowsAffected |-> IF kind = "rowsAffected" THEN 1 ELSE 0]

\* execute(): `return await lConnection.execute(...)`
Returned(result) == result

\* (variant: logon drawing a second token for the sessionID it returns)
SessionIdFresh(pr) == CHOOSE t \in Tokens : t # pr.tok

\* logon(): `_.set(resultInfo, 'sessionID', lSessionId)`
SessionIdOf(pr) == pr.tok

\* ------------------------------------------------------------ calls

\* a call starts: fresh locals, the caller keeps the connection it owns
Begin(pr, o, e, t) ==
    [pr EXCEPT !.pc = "run", !.op = o, !.ext = e, !.tok = t,
               !.lconn = NoConn, !.target = NoPool, !.fail = "none",
               !.res = "none", !.ret = NoTok, !.calls = @ + 1,
               !.nclose = 0, !.bound = FALSE, !.legacy = FALSE,
               !.args = NoArgs, !.stmt = NoStmt, !.nstmt = 0, !.val = Omitted]

\* a call settles: resolved ("ok") or rejected with an error; logoff
\* converts either into its status; the locals go out of scope; only a
\* resolved execute hands its result to the caller
Return(pr, outcome) ==
    [pr EXCEPT !.pc = "idle", !.lconn = NoConn, !.target = NoPool,
               !.fail = IF pr.fail = "none" /\ outcome # "ok" THEN outcome ELSE pr.fail,
               !.res = IF pr.op = "logoff" THEN LogoffStatus(outcome) ELSE outcome,
               !.val = IF pr.op = "execute" /\ outcome = "ok" THEN pr.val ELSE Omitted]

\* (variant: a try block whose error is dropped once the finally block has run)
SettledQuietly(pr) == "ok"

\* the outcome of a try block once its finally block has run without raising
Settled(pr) == IF pr.fail = "none" THEN "ok" ELSE pr.fail

\* caller p's last call has completed
Done(p) == proc[p].pc = "idle" /\ proc[p].op # "none"

RECURSIVE CallsUpTo(_)
CallsUpTo(n) == IF n = 0 THEN 0 ELSE proc[n].calls + CallsUpTo(n - 1)

\* caller p may make a call: it has none in progress; the run's budget is not
\* spent; callers are numbered in the order of their first call
CanCall(p) ==
    /\ proc[p].pc = "idle"
    /\ CallsUpTo(NumProcs) < MaxCalls
    /\ p > 1 => proc[p - 1].calls > 0

\* (variant: open() without its configuration checks)
OpenSyncUnchecked(pr) ==
    IF ~OpenNeeded(isOpened)
    THEN IF pr.op = "open" THEN Return(pr, "ok") ELSE [pr EXCEPT !.pc = "after_open"]
    ELSE [pr EXCEPT !.pc = "open_wait"]

\* open() up to its await
OpenSync(pr) ==
    IF ~OpenNeeded(isOpened)
    THEN IF pr.op = "open" THEN Return(pr, "ok") ELSE [pr EXCEPT !.pc = "after_open"]
    ELSE IF ~cfg.user THEN Return(pr, "ConfigError")
    ELSE IF ~cfg.connectString THEN Return(pr, "ConfigError")
    ELSE [pr EXCEPT !.pc = "open_wait"]

\* `this._pool.getConnection()`: the request goes to the pool the handle names now
LeaseCall(pr) == [pr EXCEPT !.pc = "lease_wait", !.target = pool]

\* (variant: the Session Binder without its lazy open)
BinderEnterUnopened(pr) == LeaseCall(pr)

\* `if (!this._isOpened) await this.open()` and then the lease
BinderEnter(pr) == IF ~isOpened THEN OpenSync(pr) ELSE LeaseCall(pr)

\* ------------------------------------------------------------ open / close

\* open() called by the application
DoOpen(p) ==
    /\ proc[p].pc = "idle"
    /\ LET pr == OpenSync(Begin(proc[p], "open", FALSE, NoTok))
       IN /\ proc' = [proc EXCEPT ![p] = pr]
          /\ stable' = (stable \/ pr.res = "ok")
    /\ UNCHANGED <<isOpened, pool, cfg, poolSt, conn, sessions>>

CallOpen(p) == CanCall(p) /\ DoOpen(p)

\* createPool resolves
OpenOk(p) ==
    /\ proc[p].pc = "open_wait"
    /\ LET k == CHOOSE i \in PoolIds :
                   poolSt[i] = "none" /\ \A j \in PoolIds : j < i => poolSt[j] # "none"
       IN /\ poolSt' = [poolSt EXCEPT ![k] = "open"]
          /\ pool' = k
          /\ isOpened' = TRUE
          /\ stable' = TRUE
          /\ proc' = [proc EXCEPT ![p] =
                 IF @.op = "open" THEN Return(@, "ok") ELSE [@ EXCEPT !.pc = "after_open"]]
    /\ UNCHANGED <<cfg, conn, sessions>>

\* createPool rejects
OpenFail(p) ==
    /\ proc[p].pc = "open_wait"
    /\ proc' = [proc EXCEPT ![p] = Return(@, "PoolError")]
    /\ UNCHANGED <<isOpened, pool, poolSt, stable, cfg, conn, sessions>>

\* createPool settles
OpenResume(p) == OpenOk(p) \/ OpenFail(p)

\* close() called by the application
DoClose(p) ==
    /\ proc[p].pc = "idle"
    /\ LET pr == Begin(proc[p], "close", FALSE, NoTok)
       IN proc' = [proc EXCEPT ![p] =
              IF pool = NoPool THEN Return(pr, "TypeError")
              ELSE [pr EXCEPT !.pc = "term_wait", !.target = pool]]
    /\ stable' = FALSE
    /\ UNCHANGED <<isOpened, pool, cfg, poolSt, conn, sessions>>

CallClose(p) == CanCall(p) /\ DoClose(p)

\* pool.terminate() resolves: the pool was live and is closed now
CloseOk(p) ==
    /\ proc[p].pc = "term_wait"
    /\ poolSt[proc[p].target] = "open"
    /\ poolSt' = [poolSt EXCEPT ![proc[p].target] = "closed"]
    /\ isOpened' = FALSE
    /\ proc' = [proc EXCEPT ![p] = Return(@, "ok")]
    /\ stable' = FALSE
    /\ UNCHANGED <<pool, cfg, conn, sessions>>

\* pool.terminate() rejects
CloseFail(p) ==
    /\ proc[p].pc = "term_wait"
    /\ proc' = [proc EXCEPT ![p] = Return(@, "PoolError")]
    /\ stable' = FALSE
    /\ UNCHANGED <<isOpened, poolSt, pool, cfg, conn, sessions>>

\* pool.terminate() settles
CloseResume(p) == CloseOk(p) \/ CloseFail(p)

\* ------------------------------------------------------------ collaborator

\* the statement `k` ran on connection c and resolved (ok) or rejected,
\* binding token t (NoTok: the statement binds none)
Logged(c, k, t, ok) ==
    [conn EXCEPT ![c].log = Append(@, [k |-> k, t |-> t, ok |-> ok])]

\* the same, for a statement the call prepared: the connection keeps what it
\* got (s) and what it resolved with (r; Omitted when it rejected)
Received(c, k, t, ok, s, r) ==
    [conn EXCEPT ![c].log = Append(@, [k |-> k, t |-> t, ok |-> ok]),
                 ![c].last = s, ![c].out = r]

\* the free connections of pool k, and the one the pool hands out
FreeOf(k) == {c \in ConnIds : c[1] = k /\ conn[c].st = "free"}
Grant(k) == CHOOSE c \in FreeOf(k) : \A d \in FreeOf(k) : c[2] <= d[2]

\* ------------------------------------------------------------ Session Binder

\* getConnection(aSessionId) called by the application, which then owns the result
DoGetConnection(p, t) ==
    /\ proc[p].pc = "idle"
    /\ proc[p].own = NoConn
    /\ proc' = [proc EXCEPT ![p] = BinderEnter(Begin(@, "getConnection", FALSE, t))]
    /\ UNCHANGED <<isOpened, pool, cfg, poolSt, conn, sessions, stable>>

CallGetConnection(p, t) == CanCall(p) /\ DoGetConnection(p, t)

\* `await this.open()` resumes in getConnection / logon
AfterOpenResume(p) ==
    /\ proc[p].pc = "after_open"
    /\ proc' = [proc EXCEPT ![p] = LeaseCall(@)]
    /\ UNCHANGED <<isOpened, pool, cfg, poolSt, conn, sessions, stable>>

\* pool.getConnection() settles; on a lease the schema switch is sent at once
LeaseResume(p) ==
    /\ proc[p].pc = "lease_wait"
    /\ LET k == proc[p].target
       IN \/ /\ poolSt[k] = "open"
             /\ FreeOf(k) # {}
             /\ LET c == Grant(k)
                IN /\ conn' = [conn EXCEPT ![c] =
                           [st |-> "leased", by |-> <<p, proc[p].calls>>,
                            op |-> proc[p].op, tok |-> proc[p].tok, log |-> <<>>,
                            last |-> NoStmt, out |-> Omitted]]
                   /\ proc' = [proc EXCEPT ![p] =
                           [@ EXCEPT !.lconn = c, !.pc = "schema_wait"]]
          \/ /\ poolSt[k] = "closed"
             /\ proc' = [proc EXCEPT ![p] = Return(@, "PoolError")]
             /\ UNCHANGED conn
    /\ UNCHANGED <<isOpened, pool, cfg, poolSt, sessions, stable>>

\* `alter session set CURRENT_SCHEMA` resolves
SchemaOk(p) ==
    /\ proc[p].pc = "schema_wait"
    /\ conn' = Logged(proc[p].lconn, "schema", NoTok, TRUE)
    /\ proc' = [proc EXCEPT ![p] = [@ EXCEPT !.pc = AfterSchema(proc[p].op)]]
    /\ UNCHANGED <<isOpened, pool, cfg, poolSt, sessions, stable>>

\* `alter session set CURRENT_SCHEMA` rejects: the call is left at once
SchemaFail(p) ==
    /\ proc[p].pc = "schema_wait"
    /\ conn' = Logged(proc[p].lconn, "schema", NoTok, FALSE)
    /\ proc' = [proc EXCEPT ![p] = Return(@, "SchemaError")]
    /\ UNCHANGED <<isOpened, pool, cfg, poolSt, sessions, stable>>

\* `alter session set CURRENT_SCHEMA` settles
SchemaResume(p) == SchemaOk(p) \/ SchemaFail(p)

\* the caller's statement is sent: `lConnection.execute(aSql, ...)`
StmtCall(pr) == [pr EXCEPT !.pc = "stmt_wait", !.nstmt = @ + 1]

\* getConnection returns lConnection: to the application, or to execute
BinderReturn(pr) ==
    IF pr.op = "getConnection"
    THEN Return([pr EXCEPT !.bound = TRUE, !.own = pr.lconn], "ok")
    ELSE StmtCall([pr EXCEPT !.bound = TRUE])

\* PKG_SESSION.VALIDATE_WEB settles: the server knows the token or raises
ValidateResume(p) ==
    /\ proc[p].pc = "validate_wait"
    /\ IF proc[p].tok \in sessions
       THEN /\ conn' = Logged(proc[p].lconn, "validate", proc[p].tok, TRUE)
            /\ proc' = [proc EXCEPT ![p] = BinderReturn(@)]
       ELSE /\ conn' = Logged(proc[p].lconn, "validate", proc[p].tok, FALSE)
            /\ proc' = [proc EXCEPT ![p] = Return(@, "SessionInvalidError")]
    /\ UNCHANGED <<isOpened, pool, cfg, poolSt, sessions, stable>>

\* ------------------------------------------------------------ Statement Executor

\* the locals of execute(aSessionId, aSql, aBindParams, aExecuteOptions, aConnection)
BeginExecute(pr, o, e, t, a) ==
    [Begin(pr, o, e, t) EXCEPT !.args = a, !.stmt = ExecuteStmt(a)]

\* execute(aSessionId, aSql, ...) without a connection
DoExecute(p, t, a) ==
    /\ proc[p].pc = "idle"
    /\ proc' = [proc EXCEPT ![p] = BinderEnter(BeginExecute(@, "execute", FALSE, t, a))]
    /\ UNCHANGED <<isOpened, pool, cfg, poolSt, conn, sessions, stable>>

CallExecute(p, t, a) == CanCall(p) /\ DoExecute(p, t, a)

\* execute(aSessionId, aSql, ..., aConnection) on the connection the caller owns
CallExecuteOn(p, t, a) ==
    /\ CanCall(p)
    /\ proc[p].own # NoConn
    /\ proc' = [proc EXCEPT ![p] =
           StmtCall([BeginExecute(@, "execute", TRUE, t, a) EXCEPT !.lconn = proc[p].own])]
    /\ UNCHANGED <<isOpened, pool, cfg, poolSt, conn, sessions, stable>>

\* the finally block of execute
Finally(pr) ==
    IF ClosesAfter(pr.ext)
    THEN [pr EXCEPT !.pc = "close_wait", !.nclose = @ + 1]
    ELSE Return(pr, Settled(pr))

\* the caller's statement resolves with result r; LOGOFF_WEB ends the session
StmtOk(p, r) ==
    /\ proc[p].pc = "stmt_wait"
    /\ LET k == IF proc[p].op = "logoff" THEN "logoff" ELSE "stmt"
           t == IF proc[p].op = "logoff" THEN proc[p].tok ELSE NoTok
       IN /\ conn' = Received(proc[p].lconn, k, t, TRUE, proc[p].stmt, Given(r))
          /\ sessions' = IF k = "logoff" THEN sessions \ {proc[p].tok} ELSE sessions
          /\ proc' = [proc EXCEPT ![p] = Finally([@ EXCEPT !.val = Given(Returned(r))])]
    /\ UNCHANGED <<isOpened, pool, cfg, poolSt, stable>>

\* the caller's statement rejects
StmtFail(p) ==
    /\ proc[p].pc = "stmt_wait"
    /\ LET k == IF proc[p].op = "logoff" THEN "logoff" ELSE "stmt"
           t == IF proc[p].op = "logoff" THEN proc[p].tok ELSE NoTok
       IN /\ conn' = Received(proc[p].lconn, k, t, FALSE, proc[p].stmt, Omitted)
          /\ proc' = [proc EXCEPT ![p] = Finally([@ EXCEPT !.fail = "StatementError"])]
    /\ UNCHANGED <<isOpened, pool, cfg, poolSt, sessions, stable>>

\* the caller's statement settles
StmtResume(p, r) == StmtOk(p, r) \/ StmtFail(p)

\* lConnection.close() resolves inside a finally block
ConnCloseOk(p) ==
    /\ proc[p].pc = "close_wait"
    /\ conn' = [conn EXCEPT ![proc[p].lconn] = FreeConn]
    /\ proc' = [proc EXCEPT ![p] = Return(@, Settled(@))]
    /\ UNCHANGED <<isOpened, pool, cfg, poolSt, sessions, stable>>

\* lConnection.close() rejects inside a finally block: the rejection replaces
\* whatever the try block had produced
ConnCloseFail(p) ==
    /\ proc[p].pc = "close_wait"
    /\ proc' = [proc EXCEPT ![p] = Return([@ EXCEPT !.ret = NoTok], "CloseError")]
    /\ UNCHANGED <<isOpened, pool, cfg, poolSt, conn, sessions, stable>>

\* lConnection.close() settles inside a finally block
ConnCloseResume(p) == ConnCloseOk(p) \/ ConnCloseFail(p)

\* the application closes the connection getConnection gave it
CallerClose(p) ==
    /\ proc[p].pc = "idle"
    /\ proc[p].own # NoConn
    /\ conn' = [conn EXCEPT ![proc[p].own] = FreeConn]
    /\ proc' = [proc EXCEPT ![p] = [@ EXCEPT !.own = NoConn]]
    /\ UNCHANGED <<isOpened, pool, cfg, poolSt, sessions, stable>>

\* ------------------------------------------------------------ Session Lifecycle

\* logoff(aSessionId): execute(aSessionId, LOGOFF_WEB, [aSessionId]) in a try/catch
DoLogoff(p, t) ==
    /\ proc[p].pc = "idle"
    /\ proc' = [proc EXCEPT ![p] =
           BinderEnter(BeginExecute(@, "logoff", FALSE, t, LogoffArgs(t)))]
    /\ UNCHANGED <<isOpened, pool, cfg, poolSt, conn, sessions, stable>>

CallLogoff(p, t) == CanCall(p) /\ DoLogoff(p, t)

\* logon(..., aOldPackageSession = legacy): the token randomBytes yields is t;
\* the statement and its binds are built before the first await
DoLogon(p, t, legacy) ==
    /\ proc[p].pc = "idle"
    /\ proc' = [proc EXCEPT ![p] =
           BinderEnter([Begin(@, "logon", FALSE, t) EXCEPT
                           !.legacy = legacy, !.stmt = LogonStmt(t, legacy)])]
    /\ UNCHANGED <<isOpened, pool, cfg, poolSt, conn, sessions, stable>>

CallLogon(p, t, legacy) == CanCall(p) /\ DoLogon(p, t, legacy)

\* the finally block of logon
LogonFinally(pr) == [pr EXCEPT !.pc = "close_wait", !.nclose = @ + 1]

\* PKG_SESSION.LOGON_WEB resolves: the server registers the token bound
LogonOk(p) ==
    /\ proc[p].pc = "logon_wait"
    /\ LET t == proc[p].stmt.binds["SCONNECT"]["val"]
       IN /\ conn' = Received(proc[p].lconn, "logon", t, TRUE, proc[p].stmt, Omitted)
          /\ sessions' = sessions \cup {t}
    /\ proc' = [proc EXCEPT ![p] = [@ EXCEPT !.pc = "info_wait"]]
    /\ UNCHANGED <<isOpened, pool, cfg, poolSt, stable>>

\* PKG_SESSION.LOGON_WEB rejects
LogonFail(p) ==
    /\ proc[p].pc = "logon_wait"
    /\ conn' = Received(proc[p].lconn, "logon", proc[p].stmt.binds["SCONNECT"]["val"],
                        FALSE, proc[p].stmt, Omitted)
    /\ proc' = [proc EXCEPT ![p] = LogonFinally([@ EXCEPT !.fail = "LogonError"])]
    /\ UNCHANGED <<isOpened, pool, cfg, poolSt, sessions, stable>>

\* PKG_SESSION.LOGON_WEB settles
LogonResume(p) == LogonOk(p) \/ LogonFail(p)

\* the info query resolves; its row gets sessionID = lSessionId
InfoOk(p) ==
    /\ proc[p].pc = "info_wait"
    /\ conn' = Logged(proc[p].lconn, "info", NoTok, TRUE)
    /\ proc' = [proc EXCEPT ![p] = LogonFinally([@ EXCEPT !.ret = SessionIdOf(proc[p])])]
    /\ UNCHANGED <<isOpened, pool, cfg, poolSt, sessions, stable>>

\* the info query rejects
InfoFail(p) ==
    /\ proc[p].pc = "info_wait"
    /\ conn' = Logged(proc[p].lconn, "info", NoTok, FALSE)
    /\ proc' = [proc EXCEPT ![p] = LogonFinally([@ EXCEPT !.fail = "InfoError"])]
    /\ UNCHANGED <<isOpened, pool, cfg, poolSt, sessions, stable>>

\* the info query settles
InfoResume(p) == InfoOk(p) \/ InfoFail(p)

\* ------------------------------------------------------------ specifications

\* the steps of callers P, their execute calls drawing arguments of the shapes
\* S, their logon calls the modes L, statements resolving with results of kinds R
NextOf(P, S, L, R) ==
    \E p \in P :
        \/ CallOpen(p)
        \/ OpenResume(p)
        \/ CallClose(p)
        \/ CloseResume(p)
        \/ \E t \in Tokens : CallGetConnection(p, t)
        \/ AfterOpenResume(p)
        \/ LeaseResume(p)
        \/ SchemaResume(p)
        \/ ValidateResume(p)
        \/ \E t \in Tokens, s \in S : CallExecute(p, t, ExecArgs(s))
        \/ \E t \in Tokens, s \in S : CallExecuteOn(p, t, ExecArgs(s))
        \/ \E r \in R : StmtResume(p, Result(r))
        \/ ConnCloseResume(p)
        \/ CallerClose(p)
        \/ \E t \in Tokens : CallLogoff(p, t)
        \/ \E t \in Tokens, l \in L : CallLogon(p, t, l)
        \/ LogonResume(p)
        \/ InfoResume(p)

\* concurrent callers, each call with its default argument shape
Next == NextOf(Procs, {"plain"}, {FALSE}, {"rows"})

Spec == Init /\ [][Next]_vars

\* one caller, every shape of arguments and results
NextArgs == NextOf({1}, ArgShapes, BOOLEAN, ResultKinds)

SpecArgs == Init /\ [][NextArgs]_vars

\* ------------------------------------------------------------ end to end

\* a fresh driver with a valid configuration
InitE2E == Init /\ cfg.user /\ cfg.connectString

\* one application runs a whole session: open, logon, execute calls with the
\* sessionID logon returned, logoff with that sessionID, close; each call is
\* made once the previous one has resolved
E2ECall(p) ==
    \/ /\ proc[p].calls = 0
       /\ DoOpen(p)
    \/ /\ Done(p) /\ proc[p].op = "open" /\ proc[p].res = "ok"
       /\ \E t \in Tokens, l \in BOOLEAN : DoLogon(p, t, l)
    \/ /\ Done(p) /\ proc[p].op = "logon" /\ proc[p].res = "ok"
       /\ \E s \in ArgShapes : DoExecute(p, proc[p].ret, ExecArgs(s))
    \/ /\ Done(p) /\ proc[p].op = "execute" /\ proc[p].res = "ok"
       /\ proc[p].calls < 2 + MaxExecutes
       /\ \E s \in ArgShapes : DoExecute(p, proc[p].tok, ExecArgs(s))
    \/ /\ Done(p) /\ proc[p].op = "execute" /\ proc[p].res = "ok"
       /\ DoLogoff(p, proc[p].tok)
    \/ /\ Done(p) /\ proc[p].op = "logoff" /\ proc[p].res = "0"
       /\ DoClose(p)

\* the session of that application over a database that accepts its
\* credentials and whose pool and connections do not fail: the session token
\* is still validated against what the server holds
NextE2E ==
    \E p \in {1} :
        \/ E2ECall(p)
        \/ OpenOk(p)
        \/ LeaseResume(p)
        \/ SchemaOk(p)
        \/ LogonOk(p)
        \/ InfoOk(p)
        \/ ValidateResume(p)
        \/ \E r \in ResultKinds : StmtOk(p, Result(r))
        \/ ConnCloseOk(p)
        \/ CloseOk(p)

SpecE2E == InitE2E /\ [][NextE2E]_vars
\* ------------------------------------------------------------ properties

\* the connections leased by caller p's current (or last) call and still leased
LeasedBy(p) ==
    {c \in ConnIds : conn[c].st = "leased" /\ conn[c].by = <<p, proc[p].calls>>}

\* caller p's last call was execute / logoff without a caller-supplied connection
Internal(p) == proc[p].op \in {"execute", "logoff"} /\ ~proc[p].ext

C2_NoLeak ==
    \A p \in Procs :
        (Done(p) /\ Internal(p)) => (LeasedBy(p) = {} /\ proc[p].nclose <= 1)

\* C3: a completed logon call has closed the connection it leased, exactly once,
\* whichever of the schema switch, the logon statement or the info query failed:
\* its connection is not left leased.
C3_LogonReleases ==
    \A p \in Procs :
        (Done(p) /\ proc[p].op = "logon") => (LeasedBy(p) = {} /\ proc[p].nclose <= 1)

\* C4: execute given a caller-supplied connection never calls close() on it: during
\* and after the call the connection is still leased and owned by the caller (until
\* the caller closes it), whether the statement resolved or rejected.
C4_ExternalNeverClosed ==
    \A p \in Procs :
        (proc[p].op = "execute" /\ proc[p].ext) =>
            /\ proc[p].nclose = 0
            /\ proc[p].pc # "idle" => proc[p].own # NoConn /\ proc[p].lconn = proc[p].own
            /\ proc[p].own # NoConn =>
                  /\ conn[proc[p].own].st = "leased"
                  /\ conn[proc[p].own].by[1] = p
                  /\ conn[proc[p].own].op = "getConnection"

\* C4 witness: an execute on a caller-supplied connection has completed with its
\* statement rejected, and the caller still holds the leased connection.
C4_Witness ==
    \E p \in Procs :
        /\ Done(p) /\ proc[p].op = "execute" /\ proc[p].ext
        /\ proc[p].res = "StatementError"
        /\ proc[p].own # NoConn /\ conn[proc[p].own].st = "leased"

\* C5: when the statement of an internally-scoped execute rejects, execute calls
\* close() and then rejects with that same statement error, also when close()
\* itself rejects.
C5_StatementErrorKept ==
    \A p \in Procs :
        (Done(p) /\ proc[p].op = "execute" /\ ~proc[p].ext
                 /\ proc[p].fail = "StatementError")
            => (proc[p].nclose = 1 /\ proc[p].res = "StatementError")

\* C6: logoff never throws: it completes with status 0 or -1, with 0 exactly when no
\* step (open, lease, schema switch, validation, statement, close) failed, and
\* then every step has been taken.
C6_LogoffStatus ==
    \A p \in Procs :
        (Done(p) /\ proc[p].op = "logoff") =>
            /\ proc[p].res \in {"0", "-1"}
            /\ proc[p].res = "0" <=> proc[p].fail = "none"
            /\ proc[p].res = "0" =>
                  proc[p].bound /\ proc[p].nclose = 1 /\ LeasedBy(p) = {}

\* C6 witness: a logoff with a token the server does not know has completed with
\* the failure status.
C6_Witness ==
    \E p \in Procs :
        /\ Done(p) /\ proc[p].op = "logoff"
        /\ proc[p].fail = "SessionInvalidError" /\ proc[p].res = "-1"

\* connection c was configured for token t: first the schema switch, then the
\* validation of t, each run once and resolved
Configured(c, t) ==
    /\ Len(conn[c].log) >= 2
    /\ conn[c].log[1] = [k |-> "schema", t |-> NoTok, ok |-> TRUE]
    /\ conn[c].log[2] = [k |-> "validate", t |-> t, ok |-> TRUE]
    /\ \A i \in 3 .. Len(conn[c].log) : conn[c].log[i].k \notin {"schema", "validate"}

\* C7: a connection getConnection(sessionToken) has returned (to the application or
\* to execute / logoff) has had, since its lease, exactly one schema switch and then
\* exactly one validation of that token, both resolved; no caller statement ran on
\* it before them.
C7_BoundBeforeUse ==
    /\ \A p \in Procs :
          /\ (proc[p].bound /\ proc[p].lconn # NoConn) => Configured(proc[p].lconn, proc[p].tok)
          /\ proc[p].own # NoConn => Configured(proc[p].own, conn[proc[p].own].tok)
    /\ \A c \in ConnIds :
          (conn[c].st = "leased" /\ conn[c].op \in {"getConnection", "execute", "logoff"}) =>
              \A i \in 1 .. Len(conn[c].log) :
                  conn[c].log[i].k \in {"stmt", "logoff"} => (i > 2 /\ Configured(c, conn[c].tok))

\* C7 witness: the caller's statement of an internally-scoped execute has run on a
\* connection configured for the call's token.
C7_Witness ==
    \E p \in Procs :
        /\ proc[p].op = "execute" /\ ~proc[p].ext /\ proc[p].pc = "close_wait"
        /\ Len(conn[proc[p].lconn].log) = 3
        /\ conn[proc[p].lconn].log[3].k = "stmt"
        /\ Configured(proc[p].lconn, proc[p].tok)

\* the pools created and not terminated
LivePools == {k \in PoolIds : poolSt[k] = "open"}

\* C8: whatever the interleaving of concurrent first calls, the pool is created
\* only once: the driver never has two live pools.
C8_OnePool == Cardinality(LivePools) <= 1

\* C9: an open() call that starts after an open() has completed successfully, no
\* close() having run since, creates no pool and changes neither the pool handle
\* nor isOpened: it completes at once; and in that situation isOpened is true.
C9_SecondOpenNoop ==
    /\ [](stable => isOpened /\ pool # NoPool)
    /\ [][\A p \in Procs :
            (stable /\ proc[p].pc = "idle" /\ proc'[p].op = "open"
                    /\ proc'[p].calls = proc[p].calls + 1)
                => /\ pool' = pool /\ isOpened' = isOpened /\ poolSt' = poolSt
                   /\ proc'[p].pc = "idle" /\ proc'[p].res = "ok"]_vars

\* C9 witness: one caller has called open() twice in a row, both calls succeeded,
\* and one pool exists.
C9_Witness ==
    \E p \in Procs :
        /\ Done(p) /\ proc[p].op = "open" /\ proc[p].res = "ok" /\ proc[p].calls = 2
        /\ \A q \in Procs \ {p} : proc[q].calls = 0
        /\ stable /\ isOpened
        /\ Cardinality({k \in PoolIds : poolSt[k] # "none"}) = 1
        /\ \A c \in ConnIds : conn[c] = FreeConn

\* C10: when no open() or close() call is suspended mid-way, isOpened is true
\* exactly when the driver holds a pool that was created and not terminated.
C10_IsOpenedLive ==
    (\A p \in Procs : proc[p].pc \notin {"open_wait", "term_wait"})
        => (isOpened <=> (pool # NoPool /\ poolSt[pool] = "open"))

\* C11: open() on a driver that is not open and whose configured user or connect
\* string is missing fails with an error without creating a pool, and leaves
\* isOpened false and the pool handle unset; with both present isOpened is true
\* only once a pool has been created, and it becomes true only in the step in
\* which createPool resolves and the handle is set to the new pool.
C11_OpenChecksConfig ==
    /\ [](/\ (~cfg.user \/ ~cfg.connectString) =>
                /\ \A k \in PoolIds : poolSt[k] = "none"
                /\ ~isOpened
                /\ pool = NoPool
                /\ \A p \in Procs :
                       /\ proc[p].pc # "open_wait"
                       /\ (Done(p) /\ proc[p].op = "open") => proc[p].res = "ConfigError"
          /\ isOpened => (pool # NoPool /\ poolSt[pool] # "none"))
    /\ [][(~isOpened /\ isOpened') =>
              \E p \in Procs, k \in PoolIds :
                  /\ proc[p].pc = "open_wait"
                  /\ poolSt[k] = "none" /\ poolSt'[k] = "open"
                  /\ pool' = k]_vars

\* C11 witness: open() has failed on a driver configured without a user.
C11_Witness ==
    /\ ~cfg.user
    /\ cfg.connectString
    /\ \E p \in Procs : Done(p) /\ proc[p].op = "open" /\ proc[p].res = "ConfigError"

\* the statements a logon call runs on its connection, in the order of the code
LogonSteps == <<"schema", "logon", "info">>

C13_LogonOrder ==
    /\ \A c \in ConnIds :
           (conn[c].st = "leased" /\ conn[c].op = "logon") =>
               LET log == conn[c].log
               IN /\ Len(log) <= 3
                  /\ \A i \in 1 .. Len(log) :
                         /\ log[i].k = LogonSteps[i]
                         /\ i < Len(log) => log[i].ok
    /\ \A p \in Procs :
           (proc[p].op = "logon"
               /\ proc[p].pc \in {"schema_wait", "logon_wait", "info_wait", "close_wait"}) =>
               /\ LeasedBy(p) = {proc[p].lconn}
               /\ proc[p].pc = "schema_wait" => Len(conn[proc[p].lconn].log) = 0
               /\ proc[p].pc = "logon_wait" => Len(conn[proc[p].lconn].log) = 1
               /\ proc[p].pc = "info_wait" => Len(conn[proc[p].lconn].log) = 2

\* C13 witness: a logon call has run its three statements while another caller
\* holds a connection of its own.
C13_Witness ==
    \E p, q \in Procs :
        /\ p # q
        /\ proc[p].op = "logon" /\ proc[p].pc = "close_wait"
        /\ Len(conn[proc[p].lconn].log) = 3
        /\ conn[proc[p].lconn].log[3].ok
        /\ proc[q].lconn # NoConn

\* the parameters of LOGON_WEB other than the client tag
LogonCoreNames ==
    {"SCONNECT", "SUTILIZER", "SPASSWORD", "SIMPLEMENTATION", "SAPPLICATION",
     "SCOMPANY", "SLANGUAGE"}

\* the placeholders a statement text names
Placeholders(sql) == {sql[i] : i \in 1 .. Len(sql)}

\* C14: the statement of a logon call made in legacy mode has the client tag
\* SBROWSER neither in its text nor in its binds, that of a call made in the
\* default mode has it in both; in both modes the names bound are exactly the
\* placeholders of the text, the other seven parameters are among them, and the
\* connection receives this statement.
C14_ClientTagByMode ==
    \A p \in Procs :
        proc[p].op = "logon" =>
            LET names == Placeholders(proc[p].stmt.sql)
                bound == BoundNames(proc[p].stmt.binds)
            IN /\ proc[p].legacy => ("SBROWSER" \notin names /\ "SBROWSER" \notin bound)
               /\ ~proc[p].legacy => ("SBROWSER" \in names /\ "SBROWSER" \in bound)
               /\ bound = names
               /\ LogonCoreNames \subseteq names
               /\ LogonCoreNames \subseteq bound
               /\ proc[p].pc \in {"info_wait", "close_wait"} =>
                      conn[proc[p].lconn].last = proc[p].stmt

\* C14 witness: the connection has accepted the logon statement of a call made
\* in legacy mode.
C14_Witness ==
    \E p \in Procs :
        /\ proc[p].op = "logon" /\ proc[p].legacy
        /\ proc[p].pc = "info_wait"
        /\ "SBROWSER" \notin BoundNames(conn[proc[p].lconn].last.binds)

\* the connection an execute call of caller p runs its statement on
ExecConn(p) == IF proc[p].ext THEN proc[p].own ELSE proc[p].lconn

\* C15: execute hands the caller's statement to the connection exactly once, with
\* the sql, the binds (a sequence or a named collection; the empty sequence when
\* omitted) and the options (empty when omitted) it was given, and on success
\* returns what the connection resolved with.
C15_ExecutePassesThrough ==
    /\ [](\A p \in Procs :
              proc[p].op = "execute" =>
                  LET a == proc[p].args
                      passed == [sql   |-> a.sql,
                                 binds |-> IF Len(a.binds) = 0 THEN <<>> ELSE a.binds[1],
                                 opts  |-> IF Len(a.opts) = 0 THEN {} ELSE a.opts[1]]
                  IN /\ proc[p].nstmt <= 1
                     /\ proc[p].stmt = passed
                     /\ (proc[p].pc = "close_wait"
                            \/ (Done(p) /\ proc[p].ext /\ proc[p].own # NoConn)) =>
                            /\ proc[p].nstmt = 1
                            /\ conn[ExecConn(p)].last = passed
                     /\ (proc[p].pc = "close_wait" /\ proc[p].fail = "none") =>
                            proc[p].val = conn[proc[p].lconn].out
                     /\ (Done(p) /\ proc[p].res = "ok") =>
                            /\ proc[p].nstmt = 1
                            /\ Len(proc[p].val) = 1
                            /\ (proc[p].ext /\ proc[p].own # NoConn) =>
                                   proc[p].val = conn[proc[p].own].out)
    /\ [][\A p \in Procs :
              (proc[p].op = "execute" /\ proc[p].pc = "close_wait"
                  /\ proc'[p].pc = "idle" /\ proc'[p].res = "ok") =>
                  proc'[p].val = conn[proc[p].lconn].out]_vars

\* C15 witness: an execute call given a named bind collection has returned the
\* out binds the connection resolved with.
C15_Witness ==
    \E p \in Procs :
        /\ Done(p) /\ proc[p].op = "execute" /\ ~proc[p].ext
        /\ proc[p].res = "ok"
        /\ proc[p].args.sql = "PKG_SESSION_VARS.GET_NUM"
        /\ BoundNames(proc[p].stmt.binds) = {"SNAME", "NDEFVAL", "RES"}
        /\ proc[p].val = Given(Result("outBinds"))

\* C16: on a fresh driver with a valid configuration, over a server that accepts
\* the credentials, every call of the sequence open, logon, execute (one or
\* more, with the sessionID logon returned), logoff, close succeeds: logon
\* returns a sessionID, each execute passes session validation and returns a
\* result, logoff returns 0, and after close isOpened is false and no connection
\* is leased.
C16_EndToEnd ==
    \A p \in {1} :
        Done(p) =>
            /\ proc[p].res \in {"ok", "0"}
            /\ proc[p].op = "open" => isOpened
            /\ proc[p].op = "logon" => proc[p].ret \in Tokens
            /\ proc[p].op = "execute" => (proc[p].bound /\ Len(proc[p].val) = 1)
            /\ proc[p].op = "logoff" => (proc[p].res = "0" /\ proc[p].tok \notin sessions)
            /\ proc[p].op = "close" =>
                   /\ ~isOpened
                   /\ \A c \in ConnIds : conn[c].st = "free"

\* C16 witness: the whole sequence, with the longest run of execute calls, has
\* completed for a session token the server did not hold before.
C16_Witness ==
    /\ Done(1) /\ proc[1].op = "close" /\ proc[1].res = "ok"
    /\ proc[1].calls = 4 + MaxExecutes
    /\ ~isOpened
    /\ sessions = ServerSessions0

\* the calls that go through the lazy open and propagate its error
LazyOps == {"getConnection", "execute", "logon"}

\* C17: getConnection, internally-scoped execute and logon called while isOpened
\* is false open the pool before they request a lease, and every lease request
\* addresses a pool that has been created (the handle is never unset then); when
\* that open fails, for a missing user or connect string or because createPool
\* rejects, the call rejects with that error, has leased no connection, and
\* isOpened is left as it was (false, unless a concurrent open has completed).
C17_LazyOpen ==
    /\ [](\A p \in Procs :
              /\ proc[p].pc = "lease_wait" =>
                     (proc[p].target # NoPool /\ poolSt[proc[p].target] # "none")
              /\ proc[p].pc = "after_open" => (pool # NoPool /\ poolSt[pool] # "none")
              /\ proc[p].pc \in {"open_wait", "after_open", "lease_wait"} =>
                     LeasedBy(p) = {}
              /\ (Done(p) /\ proc[p].op \in LazyOps /\ proc[p].fail = "ConfigError") =>
                     /\ proc[p].res = "ConfigError"
                     /\ LeasedBy(p) = {}
                     /\ ~isOpened)
    /\ [][\A p \in Procs :
              /\ (proc[p].pc = "idle" /\ proc'[p].pc # "idle" /\ ~proc'[p].ext /\ ~isOpened
                    /\ proc'[p].op \in LazyOps \cup {"logoff"}) =>
                     proc'[p].pc = "open_wait"
              /\ (proc[p].pc = "open_wait" /\ proc'[p].pc = "idle"
                    /\ proc[p].op \in LazyOps) =>
                     /\ proc'[p].res = "PoolError"
                     /\ isOpened' = isOpened /\ pool' = pool /\ poolSt' = poolSt
                     /\ conn' = conn
                     /\ LeasedBy(p) = {}]_vars

\* C17 witness: the first call made on the driver is a logon; it has opened the
\* pool itself and now awaits its lease.
C17_Witness ==
    \E p \in Procs :
        /\ proc[p].op = "logon" /\ proc[p].pc = "lease_wait"
        /\ \A q \in Procs : proc[q].calls = (IF q = p THEN 1 ELSE 0)
        /\ isOpened

\* the token a logon call binds as SCONNECT
BoundToken(pr) == pr.stmt.binds["SCONNECT"]["val"]

\* C18: the sessionID a successful logon call returns is the token bound as
\* SCONNECT in the logon statement of that call; the token is drawn once, when
\* the call starts and before it has a connection, and neither it nor the
\* statement built from it changes while the call runs.
C18_SessionIdIsBoundToken ==
    /\ [](\A p \in Procs :
              proc[p].op = "logon" =>
                  /\ BoundToken(proc[p]) = proc[p].tok
                  /\ proc[p].ret \in {NoTok, BoundToken(proc[p])}
                  /\ (Done(p) /\ proc[p].res = "ok") => proc[p].ret = BoundToken(proc[p])
                  /\ proc[p].lconn # NoConn =>
                         \A i \in 1 .. Len(conn[proc[p].lconn].log) :
                             conn[proc[p].lconn].log[i].k = "logon" =>
                                 conn[proc[p].lconn].log[i].t = BoundToken(proc[p]))
    /\ [][\A p \in Procs :
              (proc[p].op = "logon" /\ proc[p].pc # "idle") =>
                  (proc'[p].tok = proc[p].tok /\ proc'[p].stmt = proc[p].stmt)]_vars

\* C18 witness: a logon call has returned, as sessionID, a token the server did
\* not hold before and holds now.
C18_Witness ==
    \E p \in Procs :
        /\ Done(p) /\ proc[p].op = "logon" /\ proc[p].res = "ok"
        /\ proc[p].ret = "t2"
        /\ "t2" \in sessions

\* terminate() has been invoked on pool k: a close() call awaits it, or it has
\* resolved
TerminateInvoked(k) ==
    \/ poolSt[k] = "closed"
    \/ \E q \in Procs : proc[q].pc = "term_wait" /\ proc[q].target = k

\* C19 (as stated): whatever the interleaving of close() with other calls, no
\* lease request goes to a pool on which terminate() has been invoked, and no
\* connection is leased from such a pool.
C19_NoLeaseFromTerminatingPool ==
    [][/\ \A p \in Procs :
              (proc[p].pc # "lease_wait" /\ proc'[p].pc = "lease_wait") =>
                  ~TerminateInvoked(proc'[p].target)
       /\ \A c \in ConnIds :
              (conn[c].st = "free" /\ conn'[c].st = "leased") =>
                  ~TerminateInvoked(c[1])]_vars

\* the call <<q, n>> (caller q's n-th) has completed
Completed(by) ==
    \/ proc[by[1]].calls > by[2]
    \/ proc[by[1]].calls = by[2] /\ proc[by[1]].pc = "idle"

\* the connections of pool k still leased by a call that has completed and
\* that did not hand them to its caller: nothing will ever close them
Orphans(k) ==
    {c \in ConnIds : /\ c[1] = k
                     /\ conn[c].st = "leased"
                     /\ Completed(conn[c].by)
                     /\ \A q \in Procs : proc[q].own # c}

\* C20 (as stated, in the form a finite run refutes): no execute, logon or
\* logoff call waits for a lease on a live pool all of whose connections are
\* held by calls that have already completed, for then the lease can never be
\* granted and the call never completes.
C20_NoCallStarved ==
    \A p \in Procs :
        ~ /\ proc[p].op \in {"execute", "logon", "logoff"}
          /\ proc[p].pc = "lease_wait"
          /\ poolSt[proc[p].target] = "open"
          /\ \A c \in ConnIds : c[1] = proc[p].target => c \in Orphans(proc[p].target)
====
